---- MODULE Spec2Model ----
(***************************************************************************)
(* Model of the spreadsheet component (src/Spreadsheet.tsx, carried in     *)
(* src/src/ShareModal.tsx from line 130 on): the formula evaluator, the    *)
(* cell-edit handler with its recalculation pass, the undo/redo log, the   *)
(* version history panel (src/src/HistoryPanel.tsx) as a view-only session *)
(* uses it, and the cursor listener (src/src/useCursors.ts) of a second    *)
(* connected session.                                                      *)
(*                                                                         *)
(* A JavaScript string is a sequence of one-character strings, so that the *)
(* regular expressions, trim, split, parseFloat and toString of the source *)
(* are computed on characters.  A JavaScript number is a rational          *)
(* [n, d] in lowest terms with d > 0; NaN is the record with d = 0.        *)
(* A cell object lives in a heap and maps hold object references, because  *)
(* the source copies maps shallowly ({ ...data }) and then assigns to      *)
(* fields of the cell objects.                                             *)
(***************************************************************************)
EXTENDS Integers, Sequences, FiniteSets, TLC

\* ------------------------------------------------------------------------
\* Characters and strings
\* ------------------------------------------------------------------------

\* The printable ASCII characters, code 32 (space) to 126 (~), in code order;
\* "bs" and "bt" stand for the backslash (code 92) and the backtick (code 96),
\* which no input of the model holds.
Ascii ==
   <<
      " ", "!", "\"", "#", "$", "%", "&", "'", "(", ")", "*", "+", ",", "-", ".", "/",
      "0", "1", "2", "3", "4", "5", "6", "7", "8", "9", ":", ";", "<", "=", ">", "?",
      "@", "A", "B", "C", "D", "E", "F", "G", "H", "I", "J", "K", "L", "M", "N", "O",
      "P", "Q", "R", "S", "T", "U", "V", "W", "X", "Y", "Z", "[", "bs", "]", "^", "_",
      "bt", "a", "b", "c", "d", "e", "f", "g", "h", "i", "j", "k", "l", "m", "n", "o",
      "p", "q", "r", "s", "t", "u", "v", "w", "x", "y", "z", "{", "|", "}", "~" >>

Chars == { Ascii[i] : i \in 1..Len(Ascii) }

\* The character code of each character.
CodeOf == [ c \in Chars |-> 31 + (CHOOSE i \in 1..Len(Ascii) : Ascii[i] = c) ]

\* String.fromCharCode for the codes the model can print; "?" stands for any
\* character outside printable ASCII (it is never part of a cell key).
fromCharCode(n) == IF n \in 32..126 THEN Ascii[n - 31] ELSE "?"

IsDigit(c) == CodeOf[c] \in 48..57
IsUpper(c) == CodeOf[c] \in 65..90
IsLower(c) == CodeOf[c] \in 97..122
IsSpace(c) == c = " "

upperChar(c, code) == IF code \in 97..122 THEN fromCharCode(code - 32) ELSE c

\* String.prototype.toUpperCase
toUpperCase(s) == [ i \in 1..Len(s) |-> upperChar(s[i], CodeOf[s[i]]) ]

\* String.prototype.slice(k) (k >= 0)
slice(s, k) == SubSeq(s, k + 1, Len(s))

startsWith(s, p) == Len(s) >= Len(p) /\ SubSeq(s, 1, Len(p)) = p

RECURSIVE trimStart(_)
trimStart(s) == IF Len(s) > 0 /\ IsSpace(s[1]) THEN trimStart(Tail(s)) ELSE s

RECURSIVE trimEnd(_)
trimEnd(s) == IF Len(s) > 0 /\ IsSpace(s[Len(s)]) THEN trimEnd(SubSeq(s, 1, Len(s) - 1)) ELSE s

\* String.prototype.trim
trim(s) == trimEnd(trimStart(s))

\* The positions of s that hold character c.
PositionsOf(s, c) == { i \in 1..Len(s) : s[i] = c }

Min(S) == CHOOSE x \in S : \A y \in S : x <= y
Max(S) == CHOOSE x \in S : \A y \in S : x >= y

\* s.replace(/['"]/g, '')
stripQuotes(s) == SelectSeq(s, LAMBDA c : c \notin {"'", "\""})

\* The length of the longest prefix of s made of digits.
RECURSIVE DigitRun(_)
DigitRun(s) == IF Len(s) > 0 /\ IsDigit(s[1]) THEN 1 + DigitRun(Tail(s)) ELSE 0

\* The value of a sequence of digits read in base 10 (0 for the empty one).
RECURSIVE DigitsValue(_)
DigitsValue(s) == IF Len(s) = 0 THEN 0 ELSE 10 * DigitsValue(SubSeq(s, 1, Len(s) - 1)) + (CodeOf[s[Len(s)]] - 48)

\* ------------------------------------------------------------------------
\* Numbers
\* ------------------------------------------------------------------------

NaN == [n |-> 0, d |-> 0]

isNaN(x) == x.d = 0

Abs(n) == IF n < 0 THEN -n ELSE n

RECURSIVE GCD(_, _)
GCD(a, b) == IF b = 0 THEN a ELSE GCD(b, a % b)

reduceBy(n, d, g) == [n |-> n \div g, d |-> d \div g]

\* The number n/d (d > 0) in lowest terms.
Rat(n, d) == reduceBy(n, d, GCD(Abs(n), d))

Num(n) == [n |-> n, d |-> 1]

Add(a, b) == IF a.d = 0 \/ b.d = 0 THEN NaN ELSE Rat(a.n * b.d + b.n * a.d, a.d * b.d)

\* a / k for an integer k > 0
DivBy(a, k) == IF a.d = 0 THEN NaN ELSE Rat(a.n, a.d * k)

\* a < b; false when either is NaN, as every JavaScript comparison with NaN
Less(a, b) == a.d # 0 /\ b.d # 0 /\ a.n * b.d < b.n * a.d

\* a === b on numbers
StrictEq(a, b) == a.d # 0 /\ a = b

RECURSIVE Pow10(_)
Pow10(k) == IF k = 0 THEN 1 ELSE 10 * Pow10(k - 1)

\* x || 0 on a number: NaN and 0 are falsy
\* parseFloat(val) || 1
orOne(x) == IF x.n = 0 THEN Num(1) ELSE x

OrZero(x) == IF x.n = 0 THEN Num(0) ELSE x

\* The number written by the digits intDigits "." fracDigits, NaN when both
\* are empty.
decimal(intDigits, fracDigits) ==
   IF Len(intDigits) + Len(fracDigits) = 0 THEN NaN
   ELSE Rat(DigitsValue(intDigits \o fracDigits), Pow10(Len(fracDigits)))

\* The digits that follow a "." at the head of rest, none without the ".".
fractionOf(rest) == IF Len(rest) > 0 /\ rest[1] = "." THEN SubSeq(rest, 2, 1 + DigitRun(Tail(rest))) ELSE <<>>

unsignedAt(u, ni) == decimal(SubSeq(u, 1, ni), fractionOf(slice(u, ni)))

hasSign(t) == Len(t) > 0 /\ t[1] \in {"-", "+"}
isNegative(t) == Len(t) > 0 /\ t[1] = "-"

withSign(neg, x) == IF neg THEN [n |-> -x.n, d |-> x.d] ELSE x

afterSign(t, signed) == IF signed THEN Tail(t) ELSE t

unsignedFloat(u) == unsignedAt(u, DigitRun(u))

floatOf(t) == withSign(isNegative(t), unsignedFloat(afterSign(t, hasSign(t))))

\* parseFloat: leading white space, an optional sign, digits, an optional
\* fraction; NaN when no digit was read.  (Exponents and "Infinity" are not
\* modelled: no input of the model uses them.)
parseFloat(s) == floatOf(trimStart(s))

unsignedInt(u, ni) == IF ni = 0 THEN NaN ELSE Num(DigitsValue(SubSeq(u, 1, ni)))

unsignedIntOf(u) == unsignedInt(u, DigitRun(u))

intOf(t) == withSign(isNegative(t), unsignedIntOf(afterSign(t, hasSign(t))))

\* parseInt, radix 10: leading white space, an optional sign, digits.
parseInt(s) == intOf(trimStart(s))

\* The decimal digits of a natural number.
RECURSIVE NatToString(_)
NatToString(n) == IF n < 10 THEN <<fromCharCode(48 + n)>> ELSE NatToString(n \div 10) \o <<fromCharCode(48 + (n % 10))>>

\* The first k digits of the fraction r/d (0 <= r < d), stopping when it ends.
RECURSIVE FracDigits(_, _, _)
FracDigits(r, d, k) ==
   IF r = 0 \/ k = 0 THEN <<>>
   ELSE <<fromCharCode(48 + ((10 * r) \div d))>> \o FracDigits((10 * r) % d, d, k - 1)

fractionText(r, d) == IF r = 0 THEN <<>> ELSE <<".">> \o FracDigits(r, d, 16)

magnitudeText(m, d) == NatToString(m \div d) \o fractionText(m % d, d)

signText(n) == IF n < 0 THEN <<"-">> ELSE <<>>

\* Number.prototype.toString: exact for the numbers that have a decimal
\* expansion of at most 16 fractional digits, cut after 16 otherwise.
toString(x) == IF x.d = 0 THEN <<"N", "a", "N">> ELSE signText(x.n) \o magnitudeText(Abs(x.n), x.d)

\* ------------------------------------------------------------------------
\* The formula evaluator
\* ------------------------------------------------------------------------

\* A Record<string, CellData> with its cells read out: the sequence, in the
\* map's key order, of entries [k: key, value: string, formula: string];
\* the empty string in formula stands for no formula property.

\* The position of key in map m, 0 when m has no such key.
IndexOf(m, key) == IF \E i \in 1..Len(m) : m[i].k = key THEN CHOOSE i \in 1..Len(m) : m[i].k = key ELSE 0

valueAt(data, i, default) == IF i > 0 /\ Len(data[i].value) > 0 THEN data[i].value ELSE default

\* data[key]?.value || '0'   (and data[key]?.value.toString() || '0')
valueOrZero(data, key) == valueAt(data, IndexOf(data, key), <<"0">>)

\* val matches /^([A-Z]+)(\d+)$/
IsCellRef(val) ==
   \E j \in 1..(Len(val) - 1) :
      /\ \A i \in 1..j : IsUpper(val[i])
      /\ \A i \in (j + 1)..Len(val) : IsDigit(val[i])

evaluateValue(val, data) ==
   IF IsCellRef(val) THEN valueOrZero(data, toUpperCase(val))
   ELSE stripQuotes(val)

\* the positions of the characters of [<>=!]
opPositions(s) == { i \in 1..Len(s) : s[i] \in {"<", ">", "=", "!"} }

partsAround(condition, a, b) ==
   << trimEnd(SubSeq(condition, 1, a - 1)), SubSeq(condition, a, b), trimStart(SubSeq(condition, b + 1, Len(condition))) >>

partsOf(condition, ops) ==
   IF ops # {} /\ ops = Min(ops)..Max(ops) THEN partsAround(condition, Min(ops), Max(ops)) ELSE <<>>

\* condition.split(/\s*([<>=!]+)\s*/): the three parts when the condition
\* holds exactly one run of operator characters, and <<>> otherwise (the
\* source only looks at the parts when there are three of them).
splitCondition(condition) == partsOf(condition, opPositions(condition))

\* the switch of evaluateCondition
compare(left, op, right) ==
   CASE op = <<">">>      -> Less(right, left)
     [] op = <<"<">>      -> Less(left, right)
     [] op = <<">", "=">> -> Less(right, left) \/ StrictEq(left, right)
     [] op = <<"<", "=">> -> Less(left, right) \/ StrictEq(left, right)
     [] op \in {<<"=", "=">>, <<"=">>}      -> StrictEq(left, right)
     [] op \in {<<"!", "=">>, <<"<", ">">>} -> ~StrictEq(left, right)
     [] OTHER -> FALSE

\* parseFloat(evaluateValue(part, data)) || 0
operand(part, data) == OrZero(parseFloat(evaluateValue(part, data)))

conditionOf(parts, data) == Len(parts) = 3 /\ compare(operand(parts[1], data), parts[2], operand(parts[3], data))

evaluateCondition(condition, data) == conditionOf(splitCondition(condition), data)

\* the pieces of range.split(':'), given the positions of its colons
pieceBefore(range, cs) == IF cs = {} THEN range ELSE SubSeq(range, 1, Min(cs) - 1)

pieceAfter(range, c1, later) == SubSeq(range, c1 + 1, IF later = {} THEN Len(range) ELSE Min(later) - 1)

secondPiece(range, cs, c1) == pieceAfter(range, c1, cs \ {c1})

\* range.split(':')[0] and [1]
rangeStart(range) == pieceBefore(range, PositionsOf(range, ":"))

rangeEnd(range) == secondPiece(range, PositionsOf(range, ":"), Min(PositionsOf(range, ":")))

\* s.charCodeAt(0) - 65
colOf(s) == IF Len(s) = 0 THEN NaN ELSE Num(CodeOf[s[1]] - 65)

minusOne(x) == IF x.d = 0 THEN NaN ELSE Num(x.n - 1)

\* parseInt(s.slice(1)) - 1
rowOf(s) == minusOne(parseInt(slice(s, 1)))

\* the key `${String.fromCharCode(65 + c)}${r + 1}`
keyAt(c, r) == <<fromCharCode(65 + c)>> \o toString(Num(r + 1))

\* for (r = startRow; r <= endRow; r++) for (c = startCol; c <= endCol; c++)
rectangle(startCol, startRow, w, h) ==
   IF w <= 0 \/ h <= 0 THEN <<>>
   ELSE [ i \in 1..(w * h) |-> keyAt(startCol + ((i - 1) % w), startRow + ((i - 1) \div w)) ]

\* loops that stop before the end row: r < endRow
loopKeysBeforeEnd(startCol, startRow, endCol, endRow) ==
   IF startCol.d = 0 \/ startRow.d = 0 \/ endCol.d = 0 \/ endRow.d = 0 THEN <<>>
   ELSE rectangle(startCol.n, startRow.n, endCol.n - startCol.n + 1, endRow.n - startRow.n)

\* the loops run no step when a bound is NaN
loopKeys(startCol, startRow, endCol, endRow) ==
   IF startCol.d = 0 \/ startRow.d = 0 \/ endCol.d = 0 \/ endRow.d = 0 THEN <<>>
   ELSE rectangle(startCol.n, startRow.n, endCol.n - startCol.n + 1, endRow.n - startRow.n + 1)

keysBetween(start, end) == loopKeys(colOf(start), rowOf(start), colOf(end), rowOf(end))

\* The keys the two loops of parseRange visit, in their order.
rangeKeys(range) == keysBetween(rangeStart(range), rangeEnd(range))

valuesAt(keys, data) == [ i \in 1..Len(keys) |-> valueOrZero(data, keys[i]) ]

parseRange(range, data) == valuesAt(rangeKeys(range), data)

\* the cells that parse as numbers only, the others dropped
numbersAmong(cells) == SelectSeq([ i \in 1..Len(cells) |-> parseFloat(cells[i]) ], LAMBDA x : x.d # 0)

numbersIn(cells) == [ i \in 1..Len(cells) |-> OrZero(parseFloat(cells[i])) ]

valuesOf(trimmed, data) ==
   IF PositionsOf(trimmed, ":") # {} THEN numbersIn(parseRange(trimmed, data))
   ELSE << operand(trimmed, data) >>

parseValues(arg, data) == valuesOf(trim(arg), data)

RECURSIVE sumOf(_)
sumOf(values) == IF Len(values) = 0 THEN Num(0) ELSE Add(sumOf(SubSeq(values, 1, Len(values) - 1)), values[Len(values)])

\* values.filter(val => !isNaN(val))
numbersOf(values) == SelectSeq(values, LAMBDA x : x.d # 0)

\* The function names, in the order evaluateFormula tries them.
FunctionNames == << <<"S", "U", "M">>, <<"A", "V", "E", "R", "A", "G", "E">>, <<"C", "O", "U", "N", "T">>,
                    <<"M", "I", "N">>, <<"M", "A", "X">> >>

\* u matches /^NAME\((.+)\)$/
matchesCall(u, name) == startsWith(u, name \o <<"(">>) /\ Len(u) >= Len(name) + 3 /\ u[Len(u)] = ")"

\* the group (.+) of that match
callArg(u, name) == SubSeq(u, Len(name) + 2, Len(u) - 1)

\* the first function whose pattern u matches: its position, 0 for none
matchedCall(u) ==
   IF \E f \in 1..Len(FunctionNames) : matchesCall(u, FunctionNames[f])
   THEN CHOOSE f \in 1..Len(FunctionNames) : matchesCall(u, FunctionNames[f])
   ELSE 0

\* numbers.length > 0 ? Math.min(...numbers).toString() : '0', and the same
\* with Math.max: the number no other one is better than
ranksBefore(a, b, least) == IF least THEN Less(a, b) ELSE Less(b, a)

firstOf(numbers, least) ==
   IF Len(numbers) = 0 THEN <<"0">>
   ELSE toString(numbers[CHOOSE i \in 1..Len(numbers) : \A j \in 1..Len(numbers) : ~ranksBefore(numbers[j], numbers[i], least)])

\* what each function returns for the values of its argument
aggregate(f, values) ==
   CASE f = 1 -> toString(sumOf(values))
     [] f = 2 -> IF Len(values) > 0 THEN toString(DivBy(sumOf(values), Len(values))) ELSE <<"0">>
     [] f = 3 -> toString(Num(Len(numbersOf(values))))
     [] f = 4 -> firstOf(numbersOf(values), TRUE)
     [] f = 5 -> firstOf(numbersOf(values), FALSE)

\* the three groups of /^IF\(([^,]+),([^,]+),([^)]+)\)$/ on the text between
\* "IF(" and the last ")": no group is empty, the first two hold no comma,
\* the third no ")"; <<>> when the pattern does not match
groupsAt(inner, c1, c2) ==
   IF c1 > 1 /\ c2 > c1 + 1 /\ c2 < Len(inner) /\ PositionsOf(SubSeq(inner, c2 + 1, Len(inner)), ")") = {}
   THEN << SubSeq(inner, 1, c1 - 1), SubSeq(inner, c1 + 1, c2 - 1), SubSeq(inner, c2 + 1, Len(inner)) >>
   ELSE <<>>

groupsFrom(inner, commas) ==
   IF Cardinality(commas) >= 2 THEN groupsAt(inner, Min(commas), Min(commas \ {Min(commas)})) ELSE <<>>

ifGroups(u) ==
   IF startsWith(u, <<"I", "F", "(">>) /\ u[Len(u)] = ")"
   THEN groupsFrom(SubSeq(u, 4, Len(u) - 1), PositionsOf(SubSeq(u, 4, Len(u) - 1), ","))
   ELSE <<>>

ifValue(g, data) ==
   IF Len(g) = 0 THEN <<"0">>
   ELSE evaluateValue(trim(g[IF evaluateCondition(trim(g[1]), data) THEN 2 ELSE 3]), data)

evaluateCall(upperFormula, f, data) ==
   IF f > 0 THEN aggregate(f, parseValues(callArg(upperFormula, FunctionNames[f]), data))
   ELSE ifValue(ifGroups(upperFormula), data)

evaluateUpper(upperFormula, data) == evaluateCall(upperFormula, matchedCall(upperFormula), data)

\* evaluateFormula: SUM, AVERAGE, COUNT, MIN, MAX, IF in this order, and '0'
\* for a text that matches none of the patterns.
evaluateFormula(formula, data) == evaluateUpper(toUpperCase(formula), data)

\* ------------------------------------------------------------------------
\* The Spreadsheet component
\* ------------------------------------------------------------------------

\* Cell keys and edit texts of the model.
A1 == <<"A", "1">>
B1 == <<"B", "1">>
C1 == <<"C", "1">>

Keys == {A1, B1, C1}

Lit5    == <<"5">>
SumA1   == <<"=", "S", "U", "M", "(", "A", "1", ")">>
SumB1   == <<"=", "S", "U", "M", "(", "B", "1", ")">>
FooA1   == <<"=", "F", "O", "O", "(", "A", "1", ")">>
SumOpen == <<"=", "S", "U", "M", "(", "A", "1">>
IfTwo   == <<"=", "I", "F", "(", "A", "1", ">", "5", ",", "1", ")">>

\* The texts a user types in the general specification.
Inputs == {Lit5, SumA1, SumB1}

\* Formulas the grammar rejects: an unrecognized function name, unbalanced
\* parentheses, a wrong number of arguments.
MalformedInputs == {FooA1, SumOpen, IfTwo}

\* The number of cell edits one run of the model starts.
MaxEdits == 3

VARIABLES
   isViewOnly,    \* getAccessLevel() === 'view'
   heap,          \* the cell objects { value, formula? }, by reference
   data,          \* useState data: key -> reference, in key order
   selectedCell,  \* useState selectedCell
   editingCell,   \* useState editingCell
   editValue,     \* useState editValue
   history,       \* useState history: a list of maps key -> reference
   historyIndex,  \* useState historyIndex
   persisted,     \* the data field of the document sheets/default-sheet
   calls,         \* the calls to the store made by the latest handler
   lastOp,        \* the latest handler
   lastPass,      \* the keys re-evaluated by the latest pass, in order
   committed,     \* per history entry, the cell contents when it was appended
   phase,         \* progress through: three commits, undo, undo, redo
   sheet,         \* the data argument of a call of evaluateFormula
   expression,    \* the formula argument of that call
   result,        \* what the call returned
   isHistoryPanelOpen, \* useState isHistoryPanelOpen
   versions,      \* useState versions of HistoryPanel: the data of each listed version
   previewData,   \* useState previewData
   isPreviewing,  \* useState isPreviewing of Spreadsheet
   selectedVersion,   \* useState selectedVersion of HistoryPanel, 0 for null
   isPanelPreviewing, \* useState isPreviewing of HistoryPanel
   cursorDoc,     \* the document of this user in the cursors collection, <<>> for none
   peerData,      \* useState data of another connected session
   peerCursors,   \* useState cursors of that session
   contextMenu,   \* useState contextMenu: the cell of the open menu, <<>> for null
   registered,    \* the history, historyIndex and data inside the registered key handler
   beforeChange,  \* the cells displayed before the latest committed change
   now,           \* the clock, in steps of 30 seconds
   lastSeen,      \* the presence collection: uid -> lastSeen of the user's document
   beating,       \* the users whose heartbeat interval runs
   threshold,     \* the bound of the presence query this session registered
   onlineUsers,   \* useState onlineUsers of this session
   user,          \* useAuth().user of this session: its uid, "" for null
   commentDocs,   \* the comments collection of the sheet
   comments,      \* useState comments of CommentsPanel
   nextId,        \* the number of comment documents added so far
   twin,          \* a second sheet for the same edit
   valuesAfter    \* the cells of sheet and of twin after the edit

\* the arguments and the result of a direct call of evaluateFormula
evaluation == << sheet, expression, result >>

\* the state around the version history panel
panel == << isHistoryPanelOpen, versions, previewData, isPreviewing, selectedVersion, isPanelPreviewing >>

\* the state of another connected session
peer == << peerData, peerCursors >>

\* the context menu, the closure of the key handler, the sheet before a change
others == << contextMenu, registered, beforeChange >>

\* the presence of the users
presence == << now, lastSeen, beating, threshold, onlineUsers >>

\* the signed-in user and the comments
commenting == << user, commentDocs, comments, nextId >>

\* two sheets and what one edit makes of them
twins == << twin, valuesAfter >>

vars == << isViewOnly, heap, data, selectedCell, editingCell, editValue, history,
           historyIndex, persisted, calls, lastOp, lastPass, committed, phase, evaluation, panel,
           cursorDoc, peer, others, presence, commenting, twins >>

\* The cells of a map of references, read out of the heap.
View(map, h) ==
   [ i \in 1..Len(map) |-> [k |-> map[i].k, value |-> h[map[i].o].value, formula |-> h[map[i].o].formula] ]

\* data[key]?.value.toString() || ''
valueOrEmpty(view, key) == valueAt(view, IndexOf(view, key), <<>>)

assignAt(map, i, entry) == IF i > 0 THEN [map EXCEPT ![i] = entry] ELSE Append(map, entry)

\* newData[key] = cell on a map of references: an existing key keeps its
\* place in the key order, a new key goes last.
assign(map, key, o) == assignAt(map, IndexOf(map, key), [k |-> key, o |-> o])

Init ==
   /\ isViewOnly \in BOOLEAN
   /\ heap = <<>>
   /\ data = <<>>
   /\ selectedCell = <<>>
   /\ editingCell = <<>>
   /\ editValue = <<>>
   /\ history = <<>>
   /\ historyIndex = -1
   /\ persisted = <<>>
   /\ calls = <<>>
   /\ lastOp = "init"
   /\ lastPass = <<>>
   /\ committed = <<>>
   /\ phase = 0
   /\ sheet = <<>>
   /\ expression = <<>>
   /\ result = <<>>
   /\ isHistoryPanelOpen = FALSE
   /\ versions = <<>>
   /\ previewData = <<>>
   /\ isPreviewing = FALSE
   /\ selectedVersion = 0
   /\ isPanelPreviewing = FALSE
   /\ cursorDoc = <<>>
   /\ peerData = <<>>
   /\ peerCursors = <<>>
   /\ contextMenu = <<>>
   /\ registered = [history |-> <<>>, historyIndex |-> -1, data |-> <<>>]
   /\ beforeChange = <<>>
   /\ now = 2
   /\ lastSeen = <<>>
   /\ beating = {}
   /\ threshold = 0
   /\ onlineUsers = {}
   /\ user = "u1"
   /\ commentDocs = {}
   /\ comments = {}
   /\ nextId = 0
   /\ twin = <<>>
   /\ valuesAfter = <<>>

\* a field written with merge: the cell's value, and its formula when it has
\* one; without one the stored formula field, if any, stays
mergedCell(c, doc, key) ==
   [ value   |-> c.value,
     formula |-> IF Len(c.formula) > 0 THEN c.formula
                 ELSE IF key \in DOMAIN doc THEN doc[key].formula
                 ELSE <<>> ]

mergeInto(doc, newData, written) ==
   [ key \in (DOMAIN doc) \cup written |->
       IF key \in written THEN mergedCell(newData[IndexOf(newData, key)], doc, key) ELSE doc[key] ]

\* setDoc(docRef, { data: newData }, { merge: true }): the fields written are
\* the leaves of newData (an empty map is a leaf and replaces the field);
\* every other field of the document stays.
saveData(doc, newData) ==
   IF Len(newData) = 0 THEN <<>>
   ELSE mergeInto(doc, newData, { newData[i].k : i \in 1..Len(newData) })

\* a history that keeps the entries after the cursor
appendToHistory(hist, index, newData) == Append(hist, newData)

\* addToHistory: the new history
addToHistory(hist, index, newData) == Append(SubSeq(hist, 1, index + 1), newData)

evaluatedAt(newData, h, o) ==
   IF Len(h[o].formula) > 0
   THEN [h EXCEPT ![o].value = evaluateFormula(slice(h[o].formula, 1), View(newData, h))]
   ELSE h

\* The forEach of handleCellBlur from position i on: every cell that has a
\* formula gets its value assigned, in key order, each evaluation reading
\* the values the earlier ones left.
RECURSIVE reEvaluate(_, _, _)
reEvaluate(newData, h, i) ==
   IF i > Len(newData) THEN h
   ELSE reEvaluate(newData, evaluatedAt(newData, h, newData[i].o), i + 1)

keysOf(cells) == [ i \in 1..Len(cells) |-> cells[i].k ]

\* a pass that goes over the formula cells a second time
passTwice(view) ==
   keysOf(SelectSeq(view, LAMBDA c : Len(c.formula) > 0)) \o keysOf(SelectSeq(view, LAMBDA c : Len(c.formula) > 0))

\* the keys that forEach evaluates, in its order
passOrder(view) == keysOf(SelectSeq(view, LAMBDA c : Len(c.formula) > 0))

\* the cell object handleCellBlur creates
newCell(text, view) ==
   IF startsWith(text, <<"=">>)
   THEN [value |-> evaluateFormula(slice(text, 1), view), formula |-> text]
   ELSE [value |-> text, formula |-> <<>>]

\* the cell objects of the first j maps of a list of maps
RECURSIVE cellCount(_, _)
cellCount(list, j) == IF j = 0 THEN 0 ELSE cellCount(list, j - 1) + Len(list[j])

\* the cell objects made by this session, those of the listed versions apart
ownObjects == Len(heap) - cellCount(versions, Len(versions))

\* updateCursor(row, col): setDoc of this user's document in cursors
updateCursor(row, col) == << [row |-> row.n, col |-> col.n] >>

handleCellClick(key) ==
   /\ ~isViewOnly
   /\ editingCell = <<>> \/ editingCell = key
   /\ ownObjects < MaxEdits
   /\ selectedCell' = key
   /\ editingCell' = key
   /\ editValue' = valueOrEmpty(View(data, heap), key)
   /\ cursorDoc' = updateCursor(rowOf(key), colOf(key))
   /\ calls' = <<"updateCursor">>
   /\ lastOp' = "handleCellClick"
   /\ UNCHANGED << isViewOnly, heap, data, history, historyIndex, persisted, lastPass, committed >>

handleCellChange(value) ==
   /\ ~isViewOnly
   /\ editingCell # <<>>
   /\ editValue' = value
   /\ calls' = <<>>
   /\ lastOp' = "handleCellChange"
   /\ UNCHANGED << isViewOnly, heap, data, selectedCell, editingCell, history, historyIndex,
                   persisted, lastPass, committed >>

\* setData, addToHistory, saveData, saveVersion of handleCellBlur
commitEdit(newData, newHeap) ==
   /\ heap' = newHeap
   /\ data' = newData
   /\ history' = addToHistory(history, historyIndex, newData)
   /\ historyIndex' = Len(history') - 1
   /\ persisted' = saveData(persisted, View(data', heap'))
   /\ lastPass' = passOrder(View(data', heap'))
   /\ committed' = addToHistory(committed, historyIndex, View(data', heap'))
   /\ calls' = <<"saveData", "saveVersion">>

recalculate(newData, h) == commitEdit(newData, reEvaluate(newData, h, 1))

handleCellBlur ==
   /\ ~isViewOnly
   /\ editingCell # <<>>
   /\ ownObjects < MaxEdits
   /\ recalculate(assign(data, selectedCell, Len(heap) + 1),
                  Append(heap, newCell(editValue, View(data, heap))))
   /\ editingCell' = <<>>
   /\ lastOp' = "handleCellBlur"
   /\ UNCHANGED << isViewOnly, selectedCell, editValue >>

\* setData, setHistoryIndex and saveData of undo and redo
moveTo(newIndex) ==
   /\ data' = history[newIndex + 1]
   /\ historyIndex' = newIndex
   /\ persisted' = saveData(persisted, View(data', heap))
   /\ calls' = <<"saveData">>

\* an undo that stops one entry early
canUndoPastSecond(index) == index > 1

canUndo(index) == index > 0

canRedo(index, length) == index < length - 1

\* The toolbar buttons: pressing one takes the focus from the cell's input,
\* so the blur handler has run before.
undo ==
   /\ editingCell = <<>>
   /\ IF canUndo(historyIndex) THEN moveTo(historyIndex - 1)
      ELSE calls' = <<>> /\ UNCHANGED << data, historyIndex, persisted >>
   /\ lastOp' = "undo"
   /\ UNCHANGED << isViewOnly, heap, selectedCell, editingCell, editValue, history, lastPass, committed >>

redo ==
   /\ editingCell = <<>>
   /\ IF canRedo(historyIndex, Len(history)) THEN moveTo(historyIndex + 1)
      ELSE calls' = <<>> /\ UNCHANGED << data, historyIndex, persisted >>
   /\ lastOp' = "redo"
   /\ UNCHANGED << isViewOnly, heap, selectedCell, editingCell, editValue, history, lastPass, committed >>

Next ==
   \/ \E key \in Keys : handleCellClick(key) /\ UNCHANGED << phase, evaluation, panel, peer, others, presence, commenting, twins >>
   \/ \E value \in Inputs : handleCellChange(value) /\ UNCHANGED << phase, evaluation, panel, cursorDoc, peer, others, presence, commenting, twins >>
   \/ handleCellBlur /\ UNCHANGED << phase, evaluation, panel, cursorDoc, peer, others, presence, commenting, twins >>
   \/ undo /\ UNCHANGED << phase, evaluation, panel, cursorDoc, peer, others, presence, commenting, twins >>
   \/ redo /\ UNCHANGED << phase, evaluation, panel, cursorDoc, peer, others, presence, commenting, twins >>

Spec == Init /\ [][Next]_vars

\* The same operations with the progress through "commit, commit, commit,
\* undo, undo, redo" recorded in phase: 1..3 count the latest commits in a
\* row, 4 and 5 the undos that follow three commits, 6 the redo after them.
NextRoundTrip ==
   \/ \E key \in Keys : handleCellClick(key) /\ UNCHANGED << phase, evaluation, panel, peer, others, presence, commenting, twins >>
   \/ \E value \in Inputs : handleCellChange(value) /\ UNCHANGED << phase, evaluation, panel, cursorDoc, peer, others, presence, commenting, twins >>
   \/ handleCellBlur /\ phase' = (IF phase \in {0, 1, 2} THEN phase + 1 ELSE IF phase = 3 THEN 3 ELSE 1) /\ UNCHANGED << evaluation, panel, cursorDoc, peer, others, presence, commenting, twins >>
   \/ undo /\ phase' = (IF phase = 3 THEN 4 ELSE IF phase = 4 THEN 5 ELSE 0) /\ UNCHANGED << evaluation, panel, cursorDoc, peer, others, presence, commenting, twins >>
   \/ redo /\ phase' = (IF phase = 5 THEN 6 ELSE 0) /\ UNCHANGED << evaluation, panel, cursorDoc, peer, others, presence, commenting, twins >>

SpecRoundTrip == Init /\ [][NextRoundTrip]_vars

\* The same operations on two cells, with malformed formulas among the texts.
NextSyntax ==
   \/ \E key \in {A1, B1} : handleCellClick(key) /\ UNCHANGED << phase, evaluation, panel, peer, others, presence, commenting, twins >>
   \/ \E value \in {Lit5, SumA1} \cup MalformedInputs : handleCellChange(value) /\ UNCHANGED << phase, evaluation, panel, cursorDoc, peer, others, presence, commenting, twins >>
   \/ handleCellBlur /\ UNCHANGED << phase, evaluation, panel, cursorDoc, peer, others, presence, commenting, twins >>
   \/ undo /\ UNCHANGED << phase, evaluation, panel, cursorDoc, peer, others, presence, commenting, twins >>
   \/ redo /\ UNCHANGED << phase, evaluation, panel, cursorDoc, peer, others, presence, commenting, twins >>

SpecSyntax == Init /\ [][NextSyntax]_vars

\* ------------------------------------------------------------------------
\* The dependency graph the stored formulas imply
\* ------------------------------------------------------------------------

cellRefs(val) == IF IsCellRef(val) THEN {val} ELSE {}

keySet(keys) == { keys[i] : i \in 1..Len(keys) }

\* the keys parseValues looks up for an argument
argRefs(trimmed) == IF PositionsOf(trimmed, ":") # {} THEN keySet(rangeKeys(trimmed)) ELSE cellRefs(trimmed)

conditionRefs(parts) == IF Len(parts) = 3 THEN cellRefs(parts[1]) \cup cellRefs(parts[3]) ELSE {}

\* the keys an IF names: the operands of its condition and both branches
ifRefs(g) ==
   IF Len(g) = 0 THEN {}
   ELSE conditionRefs(splitCondition(trim(g[1]))) \cup cellRefs(trim(g[2])) \cup cellRefs(trim(g[3]))

callRefs(upperFormula, f) ==
   IF f > 0 THEN argRefs(trim(callArg(upperFormula, FunctionNames[f])))
   ELSE ifRefs(ifGroups(upperFormula))

upperRefs(upperFormula) == callRefs(upperFormula, matchedCall(upperFormula))

\* The cells the formula of a cell reads (its precedents): the keys that
\* evaluateFormula looks up in data, ranges fanned out.
precedents(formula) == upperRefs(toUpperCase(slice(formula, 1)))

formulaAt(view, i) == IF i > 0 THEN view[i].formula ELSE <<>>

\* the precedents of the cell at key in a sheet, none for a cell without formula
readsOf(view, key) == precedents(formulaAt(view, IndexOf(view, key)))

\* the cells reachable from the set S along "reads"
RECURSIVE readsClosure(_, _)
readsClosure(view, S) ==
   IF UNION { readsOf(view, k) : k \in S } \subseteq S THEN S
   ELSE readsClosure(view, S \cup UNION { readsOf(view, k) : k \in S })

\* no cell reads itself, directly or through other formulas
Acyclic(view) == \A i \in 1..Len(view) : view[i].k \notin readsClosure(view, readsOf(view, view[i].k))

\* every formula cell holds what its formula yields on the sheet as it is
Consistent(view) ==
   \A i \in 1..Len(view) :
      Len(view[i].formula) > 0 => view[i].value = evaluateFormula(slice(view[i].formula, 1), view)

positionIn(keys, key) == IF \E i \in 1..Len(keys) : keys[i] = key THEN CHOOSE i \in 1..Len(keys) : keys[i] = key ELSE 0

\* ------------------------------------------------------------------------
\* Claims
\* ------------------------------------------------------------------------

\* C1: after a committed cell edit (handleCellBlur done) every formula cell
\* holds the value its formula yields on the current sheet, so no formula
\* cell holds a value computed from an outdated precedent.
C1_NoStaleValue == lastOp = "handleCellBlur" => Consistent(View(data, heap))

\* C2: in the pass of one edit, a formula cell F that reads a formula cell P
\* is re-evaluated strictly after P (stated for the sheets that hold no
\* circular reference, where such an order exists).
C2_PrecedentsFirst ==
   (lastOp = "handleCellBlur" /\ Acyclic(View(data, heap))) =>
      \A f \in 1..Len(lastPass) : \A p \in readsOf(View(data, heap), lastPass[f]) :
         positionIn(lastPass, p) > 0 => positionIn(lastPass, p) < f

\* C3: the dependency graph implied by the stored formulas has no cycle and
\* no cell that reads itself, whatever edits were committed.
C3_AcyclicGraph == Acyclic(View(data, heap))

\* the value and formula of the cell at key; an absent cell is an empty one
contentOf(view, i) == IF i > 0 THEN [value |-> view[i].value, formula |-> view[i].formula] ELSE [value |-> <<>>, formula |-> <<>>]

contentAt(view, key) == contentOf(view, IndexOf(view, key))

\* the step is a commit of the edit text to the selected cell
IsCommit == lastOp' = "handleCellBlur"

\* C4: with B1 holding a formula that reads A1, committing to A1 a formula
\* that reads B1 leaves A1 and B1 with the values and formulas they had.
C4_CycleEditRejected ==
   [][ (IsCommit /\ selectedCell = A1 /\ B1 \in precedents(editValue) /\ A1 \in readsOf(View(data, heap), B1))
       => /\ contentAt(View(data', heap'), A1) = contentAt(View(data, heap), A1)
          /\ contentAt(View(data', heap'), B1) = contentAt(View(data, heap), B1) ]_vars

\* the text a cell was committed with: its formula, or else its value
rawInput(c) == IF Len(c.formula) > 0 THEN c.formula ELSE c.value

sameValues(before, after, keys) == \A key \in keys : contentAt(after, key).value = contentAt(before, key).value

\* C5: committing to a cell the raw input it already holds leaves the value
\* of every cell as it was.
C5_RepeatedCommitIdempotent ==
   [][ (IsCommit /\ IndexOf(data, selectedCell) > 0 /\ rawInput(contentAt(View(data, heap), selectedCell)) = editValue)
       => sameValues(View(data, heap), View(data', heap'), Keys) ]_vars

\* C6: after three commits in a row, two undos show the sheet as it was
\* committed by the first of them, and a following redo shows it as it was
\* committed by the second.
C6_UndoRedoRoundTrip == phase \in {5, 6} => View(data, heap) = committed[historyIndex + 1]

C9_HistoryImmutable == \A i \in 1..Len(history) : View(history[i], heap) = committed[i]

\* C10: committing a malformed formula to a cell keeps that cell's previous
\* value and leaves the value of every other cell unchanged.
C10_MalformedKeepsValues ==
   [][ (IsCommit /\ editValue \in MalformedInputs)
       => sameValues(View(data, heap), View(data', heap'), Keys) ]_vars

\* ------------------------------------------------------------------------
\* Direct calls of evaluateFormula
\* ------------------------------------------------------------------------

A2 == <<"A", "2">>
A3 == <<"A", "3">>
B2 == <<"B", "2">>

\* The cells of the sheets the evaluator is called on, in key order.
EvalKeys == << A1, A2, A3, B1, B2 >>

\* What a cell of such a sheet holds: <<>> for an absent cell, else <<value>>.
ColumnAChoices == { <<>>, << <<>> >>, << <<"1">> >>, << <<"x">> >>, << <<"3">> >>, << <<"-", "5">> >>, << <<"1", "0">> >> }

ColumnBChoices == { <<>>, << <<"2">> >> }

choicesAt(i) == IF EvalKeys[i][1] = "A" THEN ColumnAChoices ELSE ColumnBChoices

cellOf(key, choice) == [k |-> key, value |-> choice[1], formula |-> <<>>]

presentIn(c) == SelectSeq([ i \in 1..Len(EvalKeys) |-> i ], LAMBDA i : Len(c[i]) > 0)

cellsAt(c, present) == [ j \in 1..Len(present) |-> cellOf(EvalKeys[present[j]], c[present[j]]) ]

\* the Record<string, CellData> in which the cells chosen by c are present
sheetOf(c) == cellsAt(c, presentIn(c))

Sheets == { sheetOf(c) : c \in { f \in [1..Len(EvalKeys) -> ColumnAChoices \cup ColumnBChoices] : \A i \in 1..Len(EvalKeys) : f[i] \in choicesAt(i) } }

\* The formulas of the calls (the text after "=").
SumRange         == <<"S", "U", "M", "(", "A", "1", ":", "A", "3", ")">>
CountRange       == <<"C", "O", "U", "N", "T", "(", "A", "1", ":", "A", "3", ")">>
MinRange         == <<"M", "I", "N", "(", "A", "1", ":", "A", "2", ")">>
MaxRange         == <<"M", "A", "X", "(", "A", "1", ":", "A", "2", ")">>
MinSingle        == <<"M", "I", "N", "(", "A", "1", ":", "A", "1", ")">>
MaxSingle        == <<"M", "A", "X", "(", "A", "1", ":", "A", "1", ")">>
IfBigSmall       == <<"I", "F", "(", "A", "1", ">", "5", ",", "\"", "b", "i", "g", "\"", ",", "\"", "s", "m", "a", "l", "l", "\"", ")">>
IfCells          == <<"I", "F", "(", "A", "1", "<", "=", "B", "1", ",", "A", "2", ",", "7", ")">>
AverageRange     == <<"A", "V", "E", "R", "A", "G", "E", "(", "A", "1", ":", "A", "2", ")">>
AverageBlock     == <<"A", "V", "E", "R", "A", "G", "E", "(", "A", "1", ":", "B", "2", ")">>
AverageReversed  == <<"A", "V", "E", "R", "A", "G", "E", "(", "A", "2", ":", "A", "1", ")">>
SumPair          == <<"S", "U", "M", "(", "A", "1", ",", "B", "1", ")">>
SumMixed         == <<"S", "U", "M", "(", "A", "1", ":", "A", "2", ",", "B", "1", ")">>
SumReversed      == <<"S", "U", "M", "(", "A", "3", ":", "A", "1", ")">>
SumBlock         == <<"S", "U", "M", "(", "A", "1", ":", "B", "2", ")">>
SumBlockReversed == <<"S", "U", "M", "(", "B", "2", ":", "A", "1", ")">>

Formulas == { SumRange, CountRange, MinRange, MaxRange, MinSingle, MaxSingle,
              IfBigSmall, IfCells, AverageRange, AverageBlock, AverageReversed, SumPair,
              SumMixed, SumReversed, SumBlock, SumBlockReversed }

\* the component as mounted, and a sheet to call the evaluator on
InitEval ==
   /\ isViewOnly = FALSE
   /\ heap = <<>>
   /\ data = <<>>
   /\ selectedCell = <<>>
   /\ editingCell = <<>>
   /\ editValue = <<>>
   /\ history = <<>>
   /\ historyIndex = -1
   /\ persisted = <<>>
   /\ calls = <<>>
   /\ lastOp = "init"
   /\ lastPass = <<>>
   /\ committed = <<>>
   /\ phase = 0
   /\ sheet \in Sheets
   /\ expression = <<>>
   /\ result = <<>>
   /\ isHistoryPanelOpen = FALSE
   /\ versions = <<>>
   /\ previewData = <<>>
   /\ isPreviewing = FALSE
   /\ selectedVersion = 0
   /\ isPanelPreviewing = FALSE
   /\ cursorDoc = <<>>
   /\ peerData = <<>>
   /\ peerCursors = <<>>
   /\ contextMenu = <<>>
   /\ registered = [history |-> <<>>, historyIndex |-> -1, data |-> <<>>]
   /\ beforeChange = <<>>
   /\ now = 2
   /\ lastSeen = <<>>
   /\ beating = {}
   /\ threshold = 0
   /\ onlineUsers = {}
   /\ user = "u1"
   /\ commentDocs = {}
   /\ comments = {}
   /\ nextId = 0
   /\ twin = <<>>
   /\ valuesAfter = <<>>

\* result = evaluateFormula(f, sheet)
evaluate(f) ==
   /\ expression' = f
   /\ result' = evaluateFormula(f, sheet)
   /\ UNCHANGED << isViewOnly, heap, data, selectedCell, editingCell, editValue, history,
                   historyIndex, persisted, calls, lastOp, lastPass, committed, phase, sheet, panel,
                   cursorDoc, peer, others, presence, commenting, twins >>

NextEval == \E f \in Formulas : evaluate(f)

SpecEval == InitEval /\ [][NextEval]_vars

\* ------------------------------------------------------------------------
\* What the functions are to return, from the cells of the sheet
\* ------------------------------------------------------------------------

\* the text of the cell at key, empty for an absent cell
textAt(view, key) == contentAt(view, key).value

\* the cell holds a valid number
isNumericAt(view, key) == ~isNaN(parseFloat(textAt(view, key)))

\* the number a cell counts as: its numeric value, 0 when it has none
numericAt(view, key) == IF isNumericAt(view, key) THEN parseFloat(textAt(view, key)) ELSE Num(0)

\* the sum of what the cells at keys count as
totalOver(view, keys) == sumOf([ i \in 1..Len(keys) |-> numericAt(view, keys[i]) ])

\* the numbers held by the cells at keys that hold a valid number
numericOver(view, keys) == { parseFloat(textAt(view, keys[i])) : i \in { j \in 1..Len(keys) : isNumericAt(view, keys[j]) } }

leastOf(numbers) == CHOOSE x \in numbers : \A y \in numbers : ~Less(y, x)

greatestOf(numbers) == CHOOSE x \in numbers : \A y \in numbers : ~Less(x, y)

\* C11: SUM over one range is the sum of the numeric values of the cells of
\* the range, a non-numeric and an absent cell counting 0.
C11_SumOverRange ==
   /\ expression = SumRange => result = toString(totalOver(sheet, << A1, A2, A3 >>))
   /\ expression = SumBlock => result = toString(totalOver(sheet, << A1, B1, A2, B2 >>))

\* SUM(A1:A3) was evaluated with A1 = 1, A2 = "x", A3 = 3 and gave 4
C11_SumOneXThree ==
   /\ expression = SumRange /\ result = <<"4">>
   /\ textAt(sheet, A1) = <<"1">> /\ textAt(sheet, A2) = <<"x">> /\ textAt(sheet, A3) = <<"3">>

\* C12: COUNT over a range is the number of its cells that hold a valid
\* number; non-numeric, empty and absent cells are not counted.
C12_CountNumericOnly ==
   expression = CountRange
      => result = toString(Num(Cardinality({ i \in 1..3 : isNumericAt(sheet, EvalKeys[i]) })))

\* C13: MIN and MAX over a range are the least and the greatest of the
\* numbers held by its numeric-valid cells, the other cells being left out.
C13_MinMaxOverNumeric ==
   numericOver(sheet, << A1, A2 >>) # {}
      => /\ expression = MinRange => result = toString(leastOf(numericOver(sheet, << A1, A2 >>)))
         /\ expression = MaxRange => result = toString(greatestOf(numericOver(sheet, << A1, A2 >>)))

\* C14: MIN and MAX over a range none of whose cells holds a valid number
\* yield the string "0".
C14_MinMaxOfNoNumber ==
   /\ (expression \in {MinSingle, MaxSingle} /\ numericOver(sheet, << A1 >>) = {}) => result = <<"0">>
   /\ (expression \in {MinRange, MaxRange} /\ numericOver(sheet, << A1, A2 >>) = {}) => result = <<"0">>

\* MIN(A1:A1) was evaluated with a non-numeric A1
C14_MinOfText == expression = MinSingle /\ textAt(sheet, A1) = <<"x">> /\ result = <<"0">>

\* C15: IF(A1>5,"big","small") yields big when A1 counts as more than 5 and
\* small otherwise, the branch literal as written in the formula.
C15_IfBigSmall ==
   expression = IfBigSmall
      => result = (IF Less(Num(5), numericAt(sheet, A1)) THEN <<"b", "i", "g">> ELSE <<"s", "m", "a", "l", "l">>)

\* C16: AVERAGE over a range is the sum of what its cells count as, divided
\* by the number of all its cells, and 0 for a range of no cells.
C16_AverageOverAllCells ==
   /\ expression = AverageRange => result = toString(DivBy(totalOver(sheet, << A1, A2 >>), 2))
   /\ expression = AverageBlock => result = toString(DivBy(totalOver(sheet, << A1, B1, A2, B2 >>), 4))
   /\ (expression = AverageReversed /\ Len(parseRange(<<"A", "2", ":", "A", "1">>, sheet)) = 0) => result = <<"0">>

\* AVERAGE(A1:A2) was evaluated with a number and a non-numeric cell
C16_AverageWithText ==
   /\ expression = AverageRange /\ result = <<"5">>
   /\ textAt(sheet, A1) = <<"1", "0">> /\ textAt(sheet, A2) = <<"x">>

\* C17: SUM with several comma-separated operands is the sum over all the
\* cells its operands name, ranges flattened.
C17_SumOfOperands ==
   /\ expression = SumPair => result = toString(totalOver(sheet, << A1, B1 >>))
   /\ expression = SumMixed => result = toString(totalOver(sheet, << A1, A2, B1 >>))

\* C18: an aggregate over a range with its endpoints in reverse order is
\* the aggregate over the range with the endpoints in normal order.
C18_ReversedRange ==
   /\ expression = SumReversed => result = evaluateFormula(SumRange, sheet)
   /\ expression = SumBlockReversed => result = evaluateFormula(SumBlock, sheet)

\* ------------------------------------------------------------------------
\* A session opened through a view-only link, with the version history
\* ------------------------------------------------------------------------

\* The data of the documents in sheets/default-sheet/versions, as other
\* sessions saved them.
StoredVersions ==
   << << [k |-> A1, value |-> Lit5, formula |-> <<>>] >>,
      << [k |-> A1, value |-> Lit5, formula |-> <<>>], [k |-> B1, value |-> Lit5, formula |-> SumA1] >> >>

\* The number of restores one run of the model makes.
MaxRestores == 3

\* the cell objects of a version
objectsOf(view) == [ i \in 1..Len(view) |-> [value |-> view[i].value, formula |-> view[i].formula] ]

\* the version as a map of references to objects placed after base
referencesOf(view, base) == [ i \in 1..Len(view) |-> [k |-> view[i].k, o |-> base + i] ]

RECURSIVE objectsUpTo(_, _)
objectsUpTo(list, j) == IF j = 0 THEN <<>> ELSE objectsUpTo(list, j - 1) \o objectsOf(list[j])

\* The handlers that return at once in a view-only session.
GuardedHandlers ==
   { "handleCellClick", "handleCellChange", "handleCellBlur", "handleGlobalKeyDown",
     "handleContextMenu", "handleFileImport", "handleDrop", "handleImportClick" }

\* if (isViewOnly) return;
returned(op) ==
   /\ isViewOnly
   /\ lastOp' = op
   /\ calls' = <<>>
   /\ UNCHANGED << isViewOnly, heap, data, selectedCell, editingCell, editValue, history,
                   historyIndex, persisted, lastPass, committed, panel >>

\* The History button of the toolbar.
handleHistory ==
   /\ ~isHistoryPanelOpen
   /\ isHistoryPanelOpen' = TRUE
   /\ calls' = <<>>
   /\ lastOp' = "handleHistory"
   /\ UNCHANGED << isViewOnly, heap, data, selectedCell, editingCell, editValue, history,
                   historyIndex, persisted, lastPass, committed,
                   versions, previewData, isPreviewing, selectedVersion, isPanelPreviewing >>

\* The onSnapshot callback of HistoryPanel: the listed versions, their data
\* being new objects.  One snapshot is delivered in a run.
onVersionsSnapshot ==
   /\ isHistoryPanelOpen
   /\ versions = <<>>
   /\ heap' = heap \o objectsUpTo(StoredVersions, Len(StoredVersions))
   /\ versions' = [ j \in 1..Len(StoredVersions) |-> referencesOf(StoredVersions[j], Len(heap) + Len(objectsUpTo(StoredVersions, j - 1))) ]
   /\ calls' = <<>>
   /\ lastOp' = "onSnapshot"
   /\ UNCHANGED << isViewOnly, data, selectedCell, editingCell, editValue, history,
                   historyIndex, persisted, lastPass, committed,
                   isHistoryPanelOpen, previewData, isPreviewing, selectedVersion, isPanelPreviewing >>

\* HistoryPanel.handlePreview with Spreadsheet.handlePreview; the button of
\* the selected version is disabled.
handlePreview(v) ==
   /\ isHistoryPanelOpen
   /\ v \in 1..Len(versions)
   /\ selectedVersion # v
   /\ selectedVersion' = v
   /\ isPanelPreviewing' = TRUE
   /\ previewData' = versions[v]
   /\ isPreviewing' = TRUE
   /\ calls' = <<>>
   /\ lastOp' = "handlePreview"
   /\ UNCHANGED << isViewOnly, heap, data, selectedCell, editingCell, editValue, history,
                   historyIndex, persisted, lastPass, committed, isHistoryPanelOpen, versions >>

\* HistoryPanel.handleExitPreview: onPreview({})
handleExitPreview ==
   /\ isHistoryPanelOpen
   /\ isPanelPreviewing
   /\ selectedVersion' = 0
   /\ isPanelPreviewing' = FALSE
   /\ previewData' = <<>>
   /\ isPreviewing' = TRUE
   /\ calls' = <<>>
   /\ lastOp' = "handleExitPreview"
   /\ UNCHANGED << isViewOnly, heap, data, selectedCell, editingCell, editValue, history,
                   historyIndex, persisted, lastPass, committed, isHistoryPanelOpen, versions >>

\* The onClose of the panel.
closeHistory ==
   /\ isHistoryPanelOpen
   /\ isHistoryPanelOpen' = FALSE
   /\ isPreviewing' = FALSE
   /\ previewData' = <<>>
   /\ calls' = <<>>
   /\ lastOp' = "onClose"
   /\ UNCHANGED << isViewOnly, heap, data, selectedCell, editingCell, editValue, history,
                   historyIndex, persisted, lastPass, committed, versions, selectedVersion, isPanelPreviewing >>

\* HistoryPanel.handleRestore, confirmed by the user, with
\* Spreadsheet.handleRestore and the onClose that follows it.
handleRestore(v) ==
   /\ isHistoryPanelOpen
   /\ v \in 1..Len(versions)
   /\ Len(history) < MaxRestores
   /\ selectedVersion' = 0
   /\ isPanelPreviewing' = FALSE
   /\ data' = versions[v]
   /\ previewData' = <<>>
   /\ isPreviewing' = FALSE
   /\ history' = addToHistory(history, historyIndex, data')
   /\ historyIndex' = Len(history') - 1
   /\ committed' = addToHistory(committed, historyIndex, View(data', heap))
   /\ persisted' = saveData(persisted, View(data', heap))
   /\ calls' = <<"saveData", "saveVersion">>
   /\ isHistoryPanelOpen' = FALSE
   /\ lastOp' = "handleRestore"
   /\ UNCHANGED << isViewOnly, heap, selectedCell, editingCell, editValue, lastPass, versions >>

InitViewOnly == Init /\ isViewOnly

NextViewOnly ==
   \/ \E op \in GuardedHandlers : returned(op) /\ UNCHANGED << phase, evaluation, cursorDoc, peer, others, presence, commenting, twins >>
   \/ handleHistory /\ UNCHANGED << phase, evaluation, cursorDoc, peer, others, presence, commenting, twins >>
   \/ onVersionsSnapshot /\ UNCHANGED << phase, evaluation, cursorDoc, peer, others, presence, commenting, twins >>
   \/ \E v \in 1..Len(StoredVersions) : handlePreview(v) /\ UNCHANGED << phase, evaluation, cursorDoc, peer, others, presence, commenting, twins >>
   \/ handleExitPreview /\ UNCHANGED << phase, evaluation, cursorDoc, peer, others, presence, commenting, twins >>
   \/ closeHistory /\ UNCHANGED << phase, evaluation, cursorDoc, peer, others, presence, commenting, twins >>
   \/ \E v \in 1..Len(StoredVersions) : handleRestore(v) /\ UNCHANGED << phase, evaluation, cursorDoc, peer, others, presence, commenting, twins >>
   \/ undo /\ UNCHANGED << phase, evaluation, panel, cursorDoc, peer, others, presence, commenting, twins >>
   \/ redo /\ UNCHANGED << phase, evaluation, panel, cursorDoc, peer, others, presence, commenting, twins >>

SpecViewOnly == InitViewOnly /\ [][NextViewOnly]_vars

\* the handler wrote neither the sheet nor a version to the store
noWrite(made) == \A i \in 1..Len(made) : made[i] \notin {"saveData", "saveVersion"}

\* C19: in a view-only session no user action changes the sheet data,
\* appends to the history or writes the sheet or a version to the store.
C19_ViewOnlyChangesNothing ==
   [][ isViewOnly => (data' = data /\ history' = history /\ persisted' = persisted /\ noWrite(calls')) ]_vars

\* ------------------------------------------------------------------------
\* Another connected session
\* ------------------------------------------------------------------------

\* The onSnapshot callback of useCursors in the other session: the cursor
\* documents of the collection become its cursors.  The sheet document has no
\* listener in any session, so no callback assigns peerData.
peerOnCursorsSnapshot ==
   /\ peerCursors # cursorDoc
   /\ peerCursors' = cursorDoc
   /\ UNCHANGED << isViewOnly, heap, data, selectedCell, editingCell, editValue, history,
                   historyIndex, persisted, calls, lastOp, lastPass, committed, phase,
                   evaluation, panel, cursorDoc, peerData, others, presence, commenting, twins >>

InitPeer == Init /\ ~isViewOnly

NextPeer ==
   \/ \E key \in {A1, B1} : handleCellClick(key) /\ UNCHANGED << phase, evaluation, panel, peer, others, presence, commenting, twins >>
   \/ \E value \in {Lit5, SumA1} : handleCellChange(value) /\ UNCHANGED << phase, evaluation, panel, cursorDoc, peer, others, presence, commenting, twins >>
   \/ handleCellBlur /\ UNCHANGED << phase, evaluation, panel, cursorDoc, peer, others, presence, commenting, twins >>
   \/ peerOnCursorsSnapshot

SpecPeer == InitPeer /\ [][NextPeer]_vars

\* Firestore delivers a pending snapshot to a registered listener.
SpecPeerLive == SpecPeer /\ WF_vars(peerOnCursorsSnapshot)

\* C20: after a user commits a change, the sheet the other connected session
\* displays eventually is the sheet this user has, without an action of the
\* other user.
C20_PeerShowsCommit == (lastOp = "handleCellBlur") ~> (peerData = View(data, heap))

\* ------------------------------------------------------------------------
\* The file import and the context menu
\* ------------------------------------------------------------------------

\* String.prototype.split on a one-character separator
RECURSIVE split(_, _)
split(s, sep) ==
   IF PositionsOf(s, sep) = {} THEN << s >>
   ELSE << SubSeq(s, 1, Min(PositionsOf(s, sep)) - 1) >> \o split(SubSeq(s, Min(PositionsOf(s, sep)) + 1, Len(s)), sep)

\* replace(/^"|"$/g, ''): a quote at the start and a quote at the end go
unquoted(s) ==
   IF Len(s) > 0 /\ s[1] = "\""
   THEN (IF Len(s) > 1 /\ s[Len(s)] = "\"" THEN SubSeq(s, 2, Len(s) - 1) ELSE Tail(s))
   ELSE (IF Len(s) > 0 /\ s[Len(s)] = "\"" THEN SubSeq(s, 1, Len(s) - 1) ELSE s)

\* replace(/""/g, '"')
RECURSIVE unescapeQuotes(_)
unescapeQuotes(s) ==
   IF Len(s) < 2 THEN s
   ELSE IF s[1] = "\"" /\ s[2] = "\"" THEN << "\"" >> \o unescapeQuotes(SubSeq(s, 3, Len(s)))
   ELSE << s[1] >> \o unescapeQuotes(Tail(s))

\* cell.replace(/^"|"$/g, '').replace(/""/g, '"')
csvCell(cell) == unescapeQuotes(unquoted(cell))

cellsOfLine(pieces) == [ c \in 1..Len(pieces) |-> csvCell(pieces[c]) ]

\* text.split('\n').map(line => line.split(',').map(cell => ...))
parseCsv(text) == [ r \in 1..Len(split(text, "\n")) |-> cellsOfLine(split(split(text, "\n")[r], ",")) ]

COLUMNS == 26
ROWS == 100

\* row.forEach((cell, colIndex) => newData[getCellKey(colIndex, rowIndex)] = { value: cell }):
\* the cells of a row, none with a formula
rowCells(row, rowIndex) ==
   [ c \in 1..Min({Len(row), COLUMNS}) |-> [k |-> keyAt(c - 1, rowIndex), value |-> row[c], formula |-> <<>>] ]

\* importedData.forEach from row r on: the cells of newData in insertion order
RECURSIVE importedCells(_, _)
importedCells(rows, r) ==
   IF r > Len(rows) \/ r > ROWS THEN <<>>
   ELSE rowCells(rows[r], r - 1) \o importedCells(rows, r + 1)

\* the files offered to the import
CsvLiteral == << "5" >>
CsvFormula == << "5", ",", "=", "S", "U", "M", "(", "A", "1", ")" >>
CsvQuoted == << "\"", "5", "\"", "\n", "\"", "=", "S", "U", "M", "(", "A", "1", ")", "\"" >>
Files == { CsvLiteral, CsvFormula, CsvQuoted }

\* the most history entries a session of clears and imports builds
MaxChanges == 4

\* setData, addToHistory and saveData of a handler that makes no pass
commitData(newData, newHeap, made) ==
   /\ heap' = newHeap
   /\ data' = newData
   /\ history' = addToHistory(history, historyIndex, newData)
   /\ historyIndex' = Len(history') - 1
   /\ persisted' = saveData(persisted, View(data', heap'))
   /\ lastPass' = <<>>
   /\ committed' = addToHistory(committed, historyIndex, View(data', heap'))
   /\ calls' = made

\* The import of a CSV file chosen from the toolbar; the read of the file
\* ends before the next event of the user.
handleFileImport(file) ==
   /\ ~isViewOnly
   /\ editingCell = <<>>
   /\ Len(heap) < MaxEdits
   /\ Len(history) < MaxChanges
   /\ commitData(referencesOf(importedCells(parseCsv(file), 1), Len(heap)),
                 heap \o objectsOf(importedCells(parseCsv(file), 1)), <<"saveData">>)
   /\ lastOp' = "handleFileImport"
   /\ UNCHANGED << isViewOnly, selectedCell, editingCell, editValue >>

\* The right click on a cell; it takes the focus from an input being edited,
\* so the blur handler has run before.
handleContextMenu(key) ==
   /\ ~isViewOnly
   /\ editingCell = <<>>
   /\ contextMenu' = key
   /\ calls' = <<>>
   /\ lastOp' = "handleContextMenu"
   /\ UNCHANGED << isViewOnly, heap, data, selectedCell, editingCell, editValue, history,
                   historyIndex, persisted, lastPass, committed >>

\* const newData = { ...data }; delete newData[contextMenu.cell]
without(map, key) == SelectSeq(map, LAMBDA e : e.k # key)

\* The choice of an entry of the context menu: 'clear' commits the sheet
\* without the cell of the menu, the other entries change no sheet state.
handleContextMenuAction(action) ==
   /\ contextMenu # <<>>
   /\ Len(history) < MaxChanges
   /\ IF action = "clear" /\ ~isViewOnly
      THEN commitData(without(data, contextMenu), heap, <<"saveData", "saveVersion">>)
      ELSE calls' = <<>> /\ UNCHANGED << heap, data, history, historyIndex, persisted, lastPass, committed >>
   /\ lastOp' = action
   /\ contextMenu' = <<>>
   /\ UNCHANGED << isViewOnly, selectedCell, editingCell, editValue >>

\* the document's click listener, which runs on every click
handleClickOutside == contextMenu' = <<>>

InitOps == Init /\ ~isViewOnly

NextOps ==
   \/ \E key \in {A1, B1} : handleCellClick(key) /\ handleClickOutside /\ UNCHANGED << phase, evaluation, panel, peer, registered, beforeChange, presence, commenting, twins >>
   \/ \E value \in {Lit5, SumA1} : handleCellChange(value) /\ UNCHANGED << phase, evaluation, panel, cursorDoc, peer, others, presence, commenting, twins >>
   \/ handleCellBlur /\ beforeChange' = View(data, heap) /\ UNCHANGED << phase, evaluation, panel, cursorDoc, peer, contextMenu, registered, presence, commenting, twins >>
   \/ \E file \in Files : handleFileImport(file) /\ beforeChange' = View(data, heap) /\ handleClickOutside /\ UNCHANGED << phase, evaluation, panel, cursorDoc, peer, registered, presence, commenting, twins >>
   \/ \E key \in {A1, B1} : handleContextMenu(key) /\ UNCHANGED << phase, evaluation, panel, cursorDoc, peer, registered, beforeChange, presence, commenting, twins >>
   \/ \E action \in {"clear", "copy"} : handleContextMenuAction(action) /\ beforeChange' = (IF action = "clear" THEN View(data, heap) ELSE beforeChange) /\ UNCHANGED << phase, evaluation, panel, cursorDoc, peer, registered, presence, commenting, twins >>
   \/ undo /\ handleClickOutside /\ UNCHANGED << phase, evaluation, panel, cursorDoc, peer, registered, beforeChange, presence, commenting, twins >>
   \/ redo /\ handleClickOutside /\ UNCHANGED << phase, evaluation, panel, cursorDoc, peer, registered, beforeChange, presence, commenting, twins >>

SpecOps == InitOps /\ [][NextOps]_vars

\* ------------------------------------------------------------------------
\* The keyboard shortcuts
\* ------------------------------------------------------------------------

\* The effect that registers handleGlobalKeyDown runs after a render in which
\* selectedCell differs from the one before; the handler registered then
\* calls the undo, redo and handleCellClick of that render, which read the
\* history, the historyIndex and the data of that render.
registerOn(key) ==
   registered' = IF key # selectedCell THEN [history |-> history, historyIndex |-> historyIndex, data |-> data]
                 ELSE registered

\* setData, setHistoryIndex and saveData of undo and redo on the history hist
moveIn(hist, newIndex) ==
   /\ data' = hist[newIndex + 1]
   /\ historyIndex' = newIndex
   /\ persisted' = saveData(persisted, View(data', heap))
   /\ calls' = <<"saveData">>

\* handleGlobalKeyDown for Ctrl/Cmd+z and Ctrl/Cmd+y
handleGlobalKeyDown(key) ==
   /\ ~isViewOnly
   /\ IF key = "z" /\ canUndo(registered.historyIndex)
      THEN moveIn(registered.history, registered.historyIndex - 1)
      ELSE IF key = "y" /\ canRedo(registered.historyIndex, Len(registered.history))
      THEN moveIn(registered.history, registered.historyIndex + 1)
      ELSE calls' = <<>> /\ UNCHANGED << data, historyIndex, persisted >>
   /\ lastOp' = (IF key = "z" THEN "Ctrl+z" ELSE "Ctrl+y")
   /\ UNCHANGED << isViewOnly, heap, selectedCell, editingCell, editValue, history, lastPass, committed >>

NextKeys ==
   \/ \E key \in {A1, B1} : handleCellClick(key) /\ registerOn(key) /\ UNCHANGED << phase, evaluation, panel, peer, contextMenu, beforeChange, presence, commenting, twins >>
   \/ \E value \in {Lit5, SumA1} : handleCellChange(value) /\ UNCHANGED << phase, evaluation, panel, cursorDoc, peer, others, presence, commenting, twins >>
   \/ handleCellBlur /\ UNCHANGED << phase, evaluation, panel, cursorDoc, peer, others, presence, commenting, twins >>
   \/ undo /\ UNCHANGED << phase, evaluation, panel, cursorDoc, peer, others, presence, commenting, twins >>
   \/ redo /\ UNCHANGED << phase, evaluation, panel, cursorDoc, peer, others, presence, commenting, twins >>
   \/ \E key \in {"z", "y"} : handleGlobalKeyDown(key) /\ UNCHANGED << phase, evaluation, panel, cursorDoc, peer, others, presence, commenting, twins >>

SpecKeys == InitOps /\ [][NextKeys]_vars

\* ------------------------------------------------------------------------
\* The grid while the version history is open
\* ------------------------------------------------------------------------

\* the cell handleKeyboardNavigation moves to from the selected cell
nextKey(from, key) ==
   IF key = "ArrowRight" THEN keyAt(Min({25, colOf(from).n + 1}), rowOf(from).n)
   ELSE IF key = "ArrowLeft" THEN keyAt(Max({0, colOf(from).n - 1}), rowOf(from).n)
   ELSE IF key = "ArrowDown" THEN keyAt(colOf(from).n, Min({ROWS - 1, rowOf(from).n + 1}))
   ELSE keyAt(colOf(from).n, Max({0, rowOf(from).n - 1}))

\* handleGlobalKeyDown for an arrow key: handleKeyboardNavigation and the
\* handleCellClick of the registered handler, which reads the data of the
\* render it was registered in.  The input of the cell left is unmounted
\* without a blur.
handleKeyboardNavigation(key) ==
   /\ ~isViewOnly
   /\ selectedCell # <<>>
   /\ ownObjects < MaxEdits
   /\ selectedCell' = nextKey(selectedCell, key)
   /\ editingCell' = selectedCell'
   /\ editValue' = valueOrEmpty(View(registered.data, heap), selectedCell')
   /\ cursorDoc' = updateCursor(rowOf(selectedCell'), colOf(selectedCell'))
   /\ calls' = <<"updateCursor">>
   /\ lastOp' = key
   /\ UNCHANGED << isViewOnly, heap, data, history, historyIndex, persisted, lastPass, committed >>

\* what renderCell puts into the cell: the input with the edit text for the
\* cell being edited, else the value in previewData or data
rendered(key) ==
   IF editingCell = key THEN editValue
   ELSE valueOrEmpty(View(IF isPreviewing THEN previewData ELSE data, heap), key)

\* An editing session with the history panel.  The panel lies in an overlay
\* over the page: while it is open the mouse reaches the panel and the keys
\* reach the window; a click on a button takes the focus from an input, so
\* the blur handler has run before.
NextPanel ==
   \/ \E key \in {A1, B1} : ~isHistoryPanelOpen /\ handleCellClick(key) /\ registerOn(key) /\ UNCHANGED << phase, evaluation, panel, peer, contextMenu, beforeChange, presence, commenting, twins >>
   \/ \E key \in {"ArrowLeft", "ArrowRight"} : handleKeyboardNavigation(key) /\ selectedCell' \in {A1, B1} /\ registerOn(nextKey(selectedCell, key)) /\ UNCHANGED << phase, evaluation, panel, peer, contextMenu, beforeChange, presence, commenting, twins >>
   \/ handleCellChange(Lit5) /\ UNCHANGED << phase, evaluation, panel, cursorDoc, peer, others, presence, commenting, twins >>
   \/ handleCellBlur /\ UNCHANGED << phase, evaluation, panel, cursorDoc, peer, others, presence, commenting, twins >>
   \/ editingCell = <<>> /\ handleHistory /\ UNCHANGED << phase, evaluation, cursorDoc, peer, others, presence, commenting, twins >>
   \/ onVersionsSnapshot /\ UNCHANGED << phase, evaluation, cursorDoc, peer, others, presence, commenting, twins >>
   \/ \E v \in 1..Len(StoredVersions) : editingCell = <<>> /\ handlePreview(v) /\ UNCHANGED << phase, evaluation, cursorDoc, peer, others, presence, commenting, twins >>
   \/ editingCell = <<>> /\ handleExitPreview /\ UNCHANGED << phase, evaluation, cursorDoc, peer, others, presence, commenting, twins >>
   \/ editingCell = <<>> /\ closeHistory /\ UNCHANGED << phase, evaluation, cursorDoc, peer, others, presence, commenting, twins >>
   \/ \E v \in 1..Len(StoredVersions) : editingCell = <<>> /\ handleRestore(v) /\ UNCHANGED << phase, evaluation, cursorDoc, peer, others, presence, commenting, twins >>

SpecPanel == InitOps /\ [][NextPanel]_vars

\* ------------------------------------------------------------------------
\* The work of one edit
\* ------------------------------------------------------------------------

\* no key occurs twice in the sequence
eachOnce(keys) == \A i, j \in 1..Len(keys) : keys[i] = keys[j] => i = j

C24_SelectAndLeaveKeepsCell ==
   [][ (lastOp = "handleCellClick" /\ IsCommit)
       => /\ contentAt(View(data', heap'), selectedCell) = contentAt(View(data, heap), selectedCell)
          /\ sameValues(View(data, heap), View(data', heap'), Keys) ]_vars

\* ------------------------------------------------------------------------
\* The persisted sheet
\* ------------------------------------------------------------------------

\* the cell map of the document holds exactly the cells of the view
sameCells(doc, view) ==
   /\ DOMAIN doc = { view[i].k : i \in 1..Len(view) }
   /\ \A i \in 1..Len(view) : doc[view[i].k] = [value |-> view[i].value, formula |-> view[i].formula]

\* C29: after a committed operation that saved, the cell map of the persisted
\* sheet document equals the displayed cell map; a cell that disappeared from
\* the display is absent from the persisted map.
C29_PersistedEqualsDisplayed ==
   (lastOp \in {"handleCellBlur", "undo", "redo"} /\ calls # <<>>) => sameCells(persisted, View(data, heap))

\* ------------------------------------------------------------------------
\* Bulk loads, clears and the first undo
\* ------------------------------------------------------------------------

\* no cell holds a text that starts with the formula marker as a plain value
formulasHeld(view) ==
   \A i \in 1..Len(view) : startsWith(view[i].value, << "=" >>) => Len(view[i].formula) > 0

\* C22: after a file import every loaded cell whose text begins with "=" is
\* held as a formula, and every formula cell holds the value its formula
\* yields on the loaded sheet.
C22_LoadHoldsFormulas ==
   lastOp = "handleFileImport" => (formulasHeld(View(data, heap)) /\ Consistent(View(data, heap)))

\* C23: after Clear Cell every formula cell holds the value its formula
\* yields on the sheet without the cleared cell.
C23_ClearRecalculates == lastOp = "clear" => Consistent(View(data, heap))

\* C26: an undo issued right after a committed edit, clear or import displays
\* the cell values and formulas the sheet showed right before that change.
C26_UndoRestoresPrevious ==
   [][ (lastOp \in {"handleCellBlur", "clear", "handleFileImport"} /\ lastOp' = "undo")
       => View(data', heap') = beforeChange ]_vars

\* ------------------------------------------------------------------------
\* Undo and redo from the keyboard, and the cursor of the history
\* ------------------------------------------------------------------------

\* C25: Ctrl/Cmd+Z and Ctrl/Cmd+Y act on the current history and cursor like
\* the toolbar buttons: the cursor moves by one from its current value when
\* there is an entry to move to, and the snapshot at the new position is
\* displayed; otherwise nothing changes.
C25_ShortcutsActLikeButtons ==
   [][ /\ lastOp' = "Ctrl+z" =>
            IF historyIndex > 0 THEN historyIndex' = historyIndex - 1 /\ data' = history[historyIndex]
            ELSE historyIndex' = historyIndex /\ data' = data
       /\ lastOp' = "Ctrl+y" =>
            IF historyIndex < Len(history) - 1 THEN historyIndex' = historyIndex + 1 /\ data' = history[historyIndex + 2]
            ELSE historyIndex' = historyIndex /\ data' = data ]_vars

\* C28: the cursor is -1 on an empty history and within the history
\* otherwise, and after a commit, undo or redo that took effect the displayed
\* data is the snapshot at the cursor.
C28_CursorWithinHistory ==
   /\ IF history = <<>> THEN historyIndex = -1 ELSE historyIndex \in 0..(Len(history) - 1)
   /\ (lastOp \in {"handleCellBlur", "undo", "redo", "Ctrl+z", "Ctrl+y"} /\ calls # <<>>)
         => data = history[historyIndex + 1]

\* ------------------------------------------------------------------------
\* The preview of a version
\* ------------------------------------------------------------------------

\* C27: after handleExitPreview the grid renders the live data: isPreviewing
\* of Spreadsheet is false and every cell shows its value from data.
C27_ExitPreviewShowsLiveData ==
   lastOp = "handleExitPreview" =>
      (~isPreviewing /\ \A key \in Keys : rendered(key) = valueOrEmpty(View(data, heap), key))

\* C30: handlePreview leaves the live data, the history, the cursor and the
\* persisted sheet as they are, and while the preview is active every cell
\* rendered shows the value the previewed version has for it.
C30_PreviewChangesOnlyPreview ==
   [][ /\ lastOp' = "handlePreview" =>
            (data' = data /\ history' = history /\ historyIndex' = historyIndex /\ persisted' = persisted)
       /\ (isPreviewing' /\ isPanelPreviewing' /\ selectedVersion' > 0) =>
            \A key \in Keys : rendered(key)' = valueOrEmpty(View(versions'[selectedVersion'], heap'), key) ]_vars

\* ------------------------------------------------------------------------
\* Presence
\* ------------------------------------------------------------------------

\* the state of the sheet component
spreadsheet == << isViewOnly, heap, data, selectedCell, editingCell, editValue, history,
                  historyIndex, persisted, calls, lastOp, lastPass, committed >>

\* the other users
Peers == { "u2", "u3" }

\* the last step of the clock
MaxTime == 6

\* setDoc of a user's presence document with lastSeen: Timestamp.now()
seenNow(docs, uid, time) == [ u \in (DOMAIN docs) \cup {uid} |-> IF u = uid THEN time ELSE docs[u] ]

\* where('lastSeen', '>', bound): the users of the documents that match
online(docs, bound) == { u \in DOMAIN docs : docs[u] > bound }

\* The effect of usePresence in this session: the user's document is set, the
\* interval starts, and the listener is registered on the query whose bound
\* is one minute (two steps) before the time of the registration.
usePresence ==
   /\ user # ""
   /\ user \notin beating
   /\ lastSeen' = seenNow(lastSeen, user, now)
   /\ beating' = beating \cup {user}
   /\ threshold' = now - 2
   /\ UNCHANGED << now, onlineUsers, spreadsheet, phase, evaluation, panel, cursorDoc, peer, others, commenting, twins >>

\* the same effect in the session of another user, who opens the page once
peerUsePresence(uid) ==
   /\ uid \notin DOMAIN lastSeen
   /\ lastSeen' = seenNow(lastSeen, uid, now)
   /\ beating' = beating \cup {uid}
   /\ UNCHANGED << now, threshold, onlineUsers, spreadsheet, phase, evaluation, panel, cursorDoc, peer, others, commenting, twins >>

\* The other user closes the page: the cleanup of the effect clears the
\* interval; the presence document stays as it is.
peerLeaves(uid) ==
   /\ uid \in beating
   /\ uid # user
   /\ beating' = beating \ {uid}
   /\ UNCHANGED << now, lastSeen, threshold, onlineUsers, spreadsheet, phase, evaluation, panel, cursorDoc, peer, others, commenting, twins >>

\* 30 seconds pass and every interval that runs sets lastSeen
tick ==
   /\ now < MaxTime
   /\ now' = now + 1
   /\ lastSeen' = [ u \in DOMAIN lastSeen |-> IF u \in beating THEN now + 1 ELSE lastSeen[u] ]
   /\ UNCHANGED << beating, threshold, onlineUsers, spreadsheet, phase, evaluation, panel, cursorDoc, peer, others, commenting, twins >>

\* The onSnapshot callback of usePresence in this session: the documents
\* that match the registered query become onlineUsers.
onPresenceSnapshot ==
   /\ user \in beating
   /\ onlineUsers # online(lastSeen, threshold)
   /\ onlineUsers' = online(lastSeen, threshold)
   /\ UNCHANGED << now, lastSeen, beating, threshold, spreadsheet, phase, evaluation, panel, cursorDoc, peer, others, commenting, twins >>

NextPresence ==
   \/ usePresence
   \/ \E uid \in Peers : peerUsePresence(uid)
   \/ \E uid \in Peers : peerLeaves(uid)
   \/ tick
   \/ onPresenceSnapshot

SpecPresence == InitOps /\ [][NextPresence]_vars

\* Time passes, and Firestore delivers a pending snapshot to the listener.
SpecPresenceLive == SpecPresence /\ WF_vars(tick) /\ WF_vars(onPresenceSnapshot)

\* C31: a user who has stopped sending heartbeats and whose lastSeen is
\* more than one minute old is eventually absent from the online list of
\* this session.
C31_SilentUserLeavesList ==
   ("u2" \in DOMAIN lastSeen /\ "u2" \notin beating /\ now - lastSeen["u2"] > 2) ~> ("u2" \notin onlineUsers)

\* ------------------------------------------------------------------------
\* One edit on two sheets with the same cells
\* ------------------------------------------------------------------------

Lit7 == << "7" >>

\* The view handleCellBlur displays after the text is committed to the cell
\* key of a sheet with the given view.
editedView(view, key, text) ==
   View(assign(referencesOf(view, 0), key, Len(view) + 1),
        reEvaluate(assign(referencesOf(view, 0), key, Len(view) + 1),
                   Append(objectsOf(view), newCell(text, view)), 1))

\* the sheet the first n of the edits build from the empty sheet
RECURSIVE built(_, _)
built(edits, n) ==
   IF n = 0 THEN <<>> ELSE editedView(built(edits, n - 1), edits[n][1], edits[n][2])

\* the number of edits that build a sheet
BuildEdits == 2

\* the sheets a session reaches with that many edits
OrderSheets == { built(edits, BuildEdits) : edits \in [ 1..BuildEdits -> Keys \X Inputs ] }

\* the cells of a view by key, whatever their order
contents(view) == [ key \in { view[i].k : i \in 1..Len(view) } |-> contentAt(view, key) ]

\* the values of a view by key
valueMap(view) == [ key \in { view[i].k : i \in 1..Len(view) } |-> contentAt(view, key).value ]

\* the component as mounted, and two reachable sheets with equal cells
InitOrder ==
   /\ isViewOnly = FALSE
   /\ heap = <<>>
   /\ data = <<>>
   /\ selectedCell = <<>>
   /\ editingCell = <<>>
   /\ editValue = <<>>
   /\ history = <<>>
   /\ historyIndex = -1
   /\ persisted = <<>>
   /\ calls = <<>>
   /\ lastOp = "init"
   /\ lastPass = <<>>
   /\ committed = <<>>
   /\ phase = 0
   /\ sheet \in OrderSheets
   /\ expression = <<>>
   /\ result = <<>>
   /\ isHistoryPanelOpen = FALSE
   /\ versions = <<>>
   /\ previewData = <<>>
   /\ isPreviewing = FALSE
   /\ selectedVersion = 0
   /\ isPanelPreviewing = FALSE
   /\ cursorDoc = <<>>
   /\ peerData = <<>>
   /\ peerCursors = <<>>
   /\ contextMenu = <<>>
   /\ registered = [history |-> <<>>, historyIndex |-> -1, data |-> <<>>]
   /\ beforeChange = <<>>
   /\ now = 2
   /\ lastSeen = <<>>
   /\ beating = {}
   /\ threshold = 0
   /\ onlineUsers = {}
   /\ user = "u1"
   /\ commentDocs = {}
   /\ comments = {}
   /\ nextId = 0
   /\ twin \in { t \in OrderSheets : contents(t) = contents(sheet) }
   /\ valuesAfter = <<>>

\* the same edit committed to both sheets
editBoth(key, text) ==
   /\ valuesAfter = <<>>
   /\ valuesAfter' = << editedView(sheet, key, text), editedView(twin, key, text) >>
   /\ UNCHANGED << twin, spreadsheet, phase, evaluation, panel, cursorDoc, peer, others, presence, commenting >>

NextOrder == \E key \in Keys, text \in {Lit5, Lit7, SumA1} : editBoth(key, text)

SpecOrder == InitOrder /\ [][NextOrder]_vars

\* C32: two sheets with equal cells (values and formulas) hold equal values
\* after the same edit, whatever the order in which their cells were made.
C32_CreationOrderIrrelevant ==
   valuesAfter # <<>> => valueMap(valuesAfter[1]) = valueMap(valuesAfter[2])

\* ------------------------------------------------------------------------
\* The comments panel
\* ------------------------------------------------------------------------

\* the state of the sheet that the comments panel leaves alone
sheetState == << isViewOnly, heap, data, selectedCell, editingCell, editValue, history,
                 historyIndex, persisted, lastPass, committed >>

\* the most comment documents added in a session
MaxComments == 3

\* the component as mounted, with or without a signed-in user
InitComments ==
   /\ isViewOnly = FALSE
   /\ heap = <<>>
   /\ data = <<>>
   /\ selectedCell = <<>>
   /\ editingCell = <<>>
   /\ editValue = <<>>
   /\ history = <<>>
   /\ historyIndex = -1
   /\ persisted = <<>>
   /\ calls = <<>>
   /\ lastOp = "init"
   /\ lastPass = <<>>
   /\ committed = <<>>
   /\ phase = 0
   /\ sheet = <<>>
   /\ expression = <<>>
   /\ result = <<>>
   /\ isHistoryPanelOpen = FALSE
   /\ versions = <<>>
   /\ previewData = <<>>
   /\ isPreviewing = FALSE
   /\ selectedVersion = 0
   /\ isPanelPreviewing = FALSE
   /\ cursorDoc = <<>>
   /\ peerData = <<>>
   /\ peerCursors = <<>>
   /\ contextMenu = <<>>
   /\ registered = [history |-> <<>>, historyIndex |-> -1, data |-> <<>>]
   /\ beforeChange = <<>>
   /\ now = 2
   /\ lastSeen = <<>>
   /\ beating = {}
   /\ threshold = 0
   /\ onlineUsers = {}
   /\ user \in {"", "u1"}
   /\ commentDocs = {}
   /\ comments = {}
   /\ nextId = 0
   /\ twin = <<>>
   /\ valuesAfter = <<>>

\* addDoc(commentsRef, { cellKey, userId: uid, ... }): the collection after it
addComment(docs, id, uid) == docs \cup { [id |-> id, userId |-> uid] }

\* handleAddComment with a selected cell and a text
handleAddComment ==
   /\ user # ""
   /\ nextId < MaxComments
   /\ commentDocs' = addComment(commentDocs, nextId + 1, user)
   /\ nextId' = nextId + 1
   /\ calls' = <<"addDoc">>
   /\ lastOp' = "handleAddComment"
   /\ UNCHANGED << user, comments, sheetState, phase, evaluation, panel, cursorDoc, peer, others, presence, twins >>

\* the same handler in the session of another user
peerAddComment(uid) ==
   /\ nextId < MaxComments
   /\ commentDocs' = addComment(commentDocs, nextId + 1, uid)
   /\ nextId' = nextId + 1
   /\ calls' = <<>>
   /\ lastOp' = "peerAddComment"
   /\ UNCHANGED << user, comments, sheetState, phase, evaluation, panel, cursorDoc, peer, others, presence, twins >>

\* The onSnapshot callback of CommentsPanel: the documents become comments.
onCommentsSnapshot ==
   /\ comments # commentDocs
   /\ comments' = commentDocs
   /\ calls' = <<>>
   /\ lastOp' = "onCommentsSnapshot"
   /\ UNCHANGED << user, commentDocs, nextId, sheetState, phase, evaluation, panel, cursorDoc, peer, others, presence, twins >>

\* a check that lets every user delete
mayDeleteAny(found, uid) == found # {}

\* comment && comment.userId === user.uid, found being what
\* comments.find(c => c.id === commentId) gives
mayDelete(found, uid) == \E comment \in found : comment.userId = uid

\* handleDeleteComment(commentId)
handleDeleteComment(commentId) ==
   /\ IF user # "" /\ mayDelete({ c \in comments : c.id = commentId }, user)
      THEN /\ commentDocs' = { c \in commentDocs : c.id # commentId }
           /\ calls' = <<"deleteDoc", commentId>>
      ELSE /\ commentDocs' = commentDocs
           /\ calls' = <<>>
   /\ lastOp' = "handleDeleteComment"
   /\ UNCHANGED << user, comments, nextId, sheetState, phase, evaluation, panel, cursorDoc, peer, others, presence, twins >>

NextComments ==
   \/ handleAddComment
   \/ peerAddComment("u2")
   \/ onCommentsSnapshot
   \/ \E commentId \in 1..MaxComments : handleDeleteComment(commentId)

SpecComments == InitComments /\ [][NextComments]_vars

\* C33: handleDeleteComment issues a delete only when a user is signed in and
\* the comment is that user's own, removes no other comment, and otherwise
\* leaves the comments as they are.
C33_OnlyAuthorDeletes ==
   [][ lastOp' = "handleDeleteComment" =>
         /\ commentDocs' \subseteq commentDocs
         /\ \A c \in commentDocs \ commentDocs' : user # "" /\ c.userId = user /\ calls' = <<"deleteDoc", c.id>>
         /\ calls' # <<>> => (user # "" /\ \A c \in comments : c.id = calls'[2] => c.userId = user) ]_vars

\* the user has deleted a comment of their own while a comment of another
\* user is listed and stays
C33_OwnCommentDeleted ==
   /\ lastOp = "handleDeleteComment"
   /\ calls # <<>>
   /\ \E c \in commentDocs \cap comments : c.userId # user

====
